---------------------------- MODULE Spec2Model ----------------------------
(***************************************************************************)
(* Model of the multi-file project analyzer                                *)
(*   backend/analysis/project_analyzer.py  (analyze_project and helpers)   *)
(*   backend/analysis/complexity.py        (analyze_code_complexity)       *)
(*                                                                         *)
(* Representation.  A Python str is a sequence of one-character strings,   *)
(* so that the regular expressions and the path arithmetic of the source   *)
(* are computed character by character.  A float carrying a score is an    *)
(* integer number of thousandths before round(x, 2) and of hundredths      *)
(* after it.  A filesystem path is handled as the source handles it: as a  *)
(* string, split into components only where os.path does so.               *)
(***************************************************************************)
EXTENDS Integers, Sequences, FiniteSets, TLC

(***************************************************************************)
(* Characters and elementary str methods                                   *)
(***************************************************************************)
NL == "\n"
TAB == "\t"
BSL == "\\"
SLASH == "/"
DOT == "."

LowerLetters ==
  <<"a","b","c","d","e","f","g","h","i","j","k","l","m",
    "n","o","p","q","r","s","t","u","v","w","x","y","z">>
UpperLetters ==
  <<"A","B","C","D","E","F","G","H","I","J","K","L","M",
    "N","O","P","Q","R","S","T","U","V","W","X","Y","Z">>
LowerSet == {LowerLetters[k] : k \in 1..26}
UpperSet == {UpperLetters[k] : k \in 1..26}
Digits == {"0","1","2","3","4","5","6","7","8","9"}

\* str.lower() on one character
Lower(c) ==
  IF c \in UpperSet
    THEN LowerLetters[CHOOSE k \in 1..26 : UpperLetters[k] = c]
    ELSE c

LowerStr(s) == [k \in 1..Len(s) |-> Lower(s[k])]

\* the class \s of the re module, on the characters of the model
IsSpace(c) == c \in {" ", TAB, NL}
\* [a-zA-Z_] and [a-zA-Z0-9_]
IsIdentStart(c) == c \in LowerSet \cup UpperSet \cup {"_"}
IsIdentChar(c) == IsIdentStart(c) \/ c \in Digits

\* s[i:j] of Python with 1-based inclusive bounds; empty when j < i
Slice(s, i, j) == IF j < i THEN <<>> ELSE SubSeq(s, i, j)

\* s.startswith(p)
StartsWith(s, p) == Len(p) <= Len(s) /\ SubSeq(s, 1, Len(p)) = p

\* whether p occurs in s at position i
MatchAt(s, i, p) ==
  /\ i >= 1
  /\ i + Len(p) - 1 <= Len(s)
  /\ \A k \in 1..Len(p) : s[i + k - 1] = p[k]

\* the same under re.IGNORECASE, p being lower case
MatchAtI(s, i, p) ==
  /\ i >= 1
  /\ i + Len(p) - 1 <= Len(s)
  /\ \A k \in 1..Len(p) : Lower(s[i + k - 1]) = p[k]

\* s.split(c)[0]: the part of s before the first c
BeforeFirst(s, c) ==
  IF \E k \in 1..Len(s) : s[k] = c
    THEN Slice(s, 1, (CHOOSE k \in 1..Len(s) :
                        s[k] = c /\ \A m \in 1..(k - 1) : s[m] # c) - 1)
    ELSE s

\* s.lstrip(chars): every leading character that is in the set chars goes
LStripChars(s, chars) ==
  IF \A k \in 1..Len(s) : s[k] \in chars
    THEN <<>>
    ELSE Slice(s, CHOOSE k \in 1..Len(s) :
                    s[k] \notin chars /\ \A m \in 1..(k - 1) : s[m] \in chars,
               Len(s))

\* s.strip()
Strip(s) ==
  IF \A k \in 1..Len(s) : IsSpace(s[k])
    THEN <<>>
    ELSE LET a == CHOOSE k \in 1..Len(s) :
                    ~IsSpace(s[k]) /\ \A m \in 1..(k - 1) : IsSpace(s[m])
             b == CHOOSE k \in 1..Len(s) :
                    ~IsSpace(s[k]) /\ \A m \in (k + 1)..Len(s) : IsSpace(s[m])
         IN  SubSeq(s, a, b)

\* s.splitlines(): a final line break opens no further line
RECURSIVE SplitLinesFrom(_, _, _)
SplitLinesFrom(s, i, cur) ==
  IF i > Len(s)
    THEN IF cur = <<>> THEN <<>> ELSE <<cur>>
    ELSE IF s[i] = NL
           THEN <<cur>> \o SplitLinesFrom(s, i + 1, <<>>)
           ELSE SplitLinesFrom(s, i + 1, Append(cur, s[i]))

SplitLines(s) == SplitLinesFrom(s, 1, <<>>)

\* s.split("/")
RECURSIVE SplitSlashFrom(_, _, _)
SplitSlashFrom(s, i, cur) ==
  IF i > Len(s)
    THEN <<cur>>
    ELSE IF s[i] = SLASH
           THEN <<cur>> \o SplitSlashFrom(s, i + 1, <<>>)
           ELSE SplitSlashFrom(s, i + 1, Append(cur, s[i]))

SplitSlash(s) == SplitSlashFrom(s, 1, <<>>)

\* "/".join(comps)
RECURSIVE JoinSlash(_)
JoinSlash(comps) ==
  IF comps = <<>> THEN <<>>
  ELSE IF Len(comps) = 1 THEN comps[1]
  ELSE comps[1] \o <<SLASH>> \o JoinSlash(Tail(comps))

RECURSIVE SumSeq(_)
SumSeq(q) == IF q = <<>> THEN 0 ELSE Head(q) + SumSeq(Tail(q))

\* the elements of a sequence
Range(q) == {q[k] : k \in 1..Len(q)}


\* d.get(key, default) of a dict, a dict being a function on its keys
DictGet(d, key, default) == IF key \in DOMAIN d THEN d[key] ELSE default

\* the dict {}
EmptyDict == [k \in {} |-> 0]

(***************************************************************************)
(* complexity.py                                                           *)
(***************************************************************************)

LOOP_KEYWORDS ==
  [python |-> << <<"f","o","r">>, <<"w","h","i","l","e">> >>,
   java |-> << <<"f","o","r">>, <<"w","h","i","l","e">>, <<"d","o">> >>]

CONDITIONAL_KEYWORDS ==
  [python |-> << <<"i","f">>, <<"e","l","i","f">>, <<"e","l","s","e">>,
                 <<"m","a","t","c","h">> >>,
   java |-> << <<"i","f">>, <<"e","l","s","e">>, <<"s","w","i","t","c","h">>,
               <<"c","a","s","e">> >>]

FUNCTION_KEYWORDS ==
  [python |-> << <<"d","e","f">>, <<"c","l","a","s","s">> >>,
   java |-> << <<"c","l","a","s","s">>, <<"v","o","i","d">>,
               <<"p","u","b","l","i","c">>, <<"p","r","i","v","a","t","e">>,
               <<"p","r","o","t","e","c","t","e","d">> >>]

SUPPORTED_LANGUAGES == {"python", "java"}

\* The weights of _estimate_complexity, in thousandths.
WeightBase == 1000
WeightLoop == 1800
WeightConditional == 1200
WeightFunction == 500
WeightDuplicate == 700

\* round(x, 2): x in thousandths, the result in hundredths; a tie goes to the
\* even neighbour, as Python rounds
Round2(x) ==
  LET q == x \div 10
      r == x % 10
  IN  IF r < 5 THEN q
      ELSE IF r > 5 THEN q + 1
      ELSE IF q % 2 = 0 THEN q ELSE q + 1

\* The two characters the pattern's r"\\b" matches: the raw string holds two
\* backslashes, which the re module reads as one literal backslash, and a b.
WordBoundary == <<BSL, "b">>

\* The length of the match of r"\\b(k1|k2|...)\\b" at position i of code, 0 when
\* there is none.  The alternatives are tried in order.
KeywordMatchLen(code, i, keywords) ==
  LET ok(k) == /\ MatchAt(code, i, WordBoundary)
               /\ MatchAt(code, i + 2, keywords[k])
               /\ MatchAt(code, i + 2 + Len(keywords[k]), WordBoundary)
  IN  IF \E k \in 1..Len(keywords) : ok(k)
        THEN 4 + Len(keywords[CHOOSE k \in 1..Len(keywords) :
                                ok(k) /\ \A m \in 1..(k - 1) : ~ok(m)])
        ELSE 0

\* len(re.findall(pattern, code)): the matches do not overlap
RECURSIVE CountKeywordsFrom(_, _, _)
CountKeywordsFrom(code, i, keywords) ==
  IF i > Len(code) THEN 0
  ELSE LET n == KeywordMatchLen(code, i, keywords)
       IN  IF n > 0
             THEN 1 + CountKeywordsFrom(code, i + n, keywords)
             ELSE CountKeywordsFrom(code, i + 1, keywords)

_count_keywords(code, keywords) ==
  IF keywords = <<>> THEN 0 ELSE CountKeywordsFrom(code, 1, keywords)

\* Counter(items)[x]
Occurrences(items, x) == Cardinality({k \in 1..Len(items) : items[k] = x})

\* sum(count - 1 for count in counter.values() if count > 1)
RECURSIVE SumExcess(_, _)
SumExcess(items, keys) ==
  IF keys = {} THEN 0
  ELSE LET x == CHOOSE y \in keys : TRUE
           c == Occurrences(items, x)
       IN  (IF c > 1 THEN c - 1 ELSE 0) + SumExcess(items, keys \ {x})

\* the count over every line, the empty ones included
CountDuplicateLinesWithEmpty(lines) == SumExcess(lines, Range(lines))

_count_duplicate_lines(lines) ==
  LET kept == SelectSeq(lines, LAMBDA l : l # <<>>)
  IN  SumExcess(kept, Range(kept))

WINDOW == 3

\* the count over every window, those with an empty line included
CountRepeatedSequencesUnfiltered(lines) ==
  IF Len(lines) < WINDOW THEN 0
  ELSE LET windows == [i \in 1..(Len(lines) - WINDOW + 1) |-> SubSeq(lines, i, i + WINDOW - 1)]
       IN  SumExcess(windows, Range(windows))

_count_repeated_sequences(lines) ==
  IF Len(lines) < WINDOW THEN 0
  ELSE LET starts == {i \in 1..(Len(lines) - WINDOW + 1) :
                        \A k \in i..(i + WINDOW - 1) : lines[k] # <<>>}
           windows == [i \in starts |-> SubSeq(lines, i, i + WINDOW - 1)]
           distinct == {windows[i] : i \in starts}
           count(w) == Cardinality({i \in starts : windows[i] = w})
           RECURSIVE Excess(_)
           Excess(ws) ==
             IF ws = {} THEN 0
             ELSE LET w == CHOOSE y \in ws : TRUE
                  IN  (IF count(w) > 1 THEN count(w) - 1 ELSE 0)
                        + Excess(ws \ {w})
       IN  Excess(distinct)

\* the score with the weights of functions and of duplication exchanged
EstimateWeightsExchanged(loops, conditionals, functions, duplicates) ==
  WeightBase + loops * WeightLoop + conditionals * WeightConditional
    + functions * WeightDuplicate + duplicates * WeightFunction

\* the score with the penalty taken off instead of added
EstimatePenaltySubtracted(loops, conditionals, functions, duplicates) ==
  WeightBase + loops * WeightLoop + conditionals * WeightConditional
    + functions * WeightFunction - duplicates * WeightDuplicate

\* base + penalty, in thousandths
_estimate_complexity(loops, conditionals, functions, duplicates) ==
  LET base == WeightBase + loops * WeightLoop
                + conditionals * WeightConditional + functions * WeightFunction
      penalty == duplicates * WeightDuplicate
  IN  base + penalty

\* The dataclass ComplexityReport; its score is the unrounded float (thousandths).
ComplexityReport(language, lines_of_code, loops, conditionals, functions, duplicate_lines, repeated_sequences, estimated_complexity) ==
  [language |-> language,
   lines_of_code |-> lines_of_code,
   loops |-> loops,
   conditionals |-> conditionals,
   functions |-> functions,
   duplicate_lines |-> duplicate_lines,
   repeated_sequences |-> repeated_sequences,
   estimated_complexity |-> estimated_complexity]

\* ComplexityReport.as_dict: the score leaves rounded to two places (hundredths)
as_dict(self) ==
  [self EXCEPT !.estimated_complexity = Round2(self.estimated_complexity)]

\* A file's content as the caller hands it over: a str, or a value that is no
\* str (None), on which code.splitlines() raises.
StrContent(text) == [kind |-> "str", text |-> text]
NoneContent == [kind |-> "none", text |-> <<>>]

MsgNoSplitlines == "'NoneType' object has no attribute 'splitlines'"
MsgUnsupported == "Unsupported language"

\* What a call leaves: a value, or an exception with its message.
Returned(v) == [raised |-> FALSE, value |-> v, message |-> ""]
Raised(msg) == [raised |-> TRUE, value |-> EmptyDict, message |-> msg]

\* _sanitize_language: the tags reaching it are the classifier's own, lower
\* case and without blanks, so strip().lower() leaves them as they are
_sanitize_language(language) ==
  IF language \notin SUPPORTED_LANGUAGES
    THEN Raised(MsgUnsupported)
    ELSE Returned(language)

analyze_code_complexity(code, language) ==
  LET san == _sanitize_language(language)
  IN  IF san.raised THEN san
      ELSE IF code.kind # "str" THEN Raised(MsgNoSplitlines)
      ELSE
        LET normalized_language == san.value
            text == code.text
            split == SplitLines(text)
            normalized_lines == [k \in 1..Len(split) |-> Strip(split[k])]
            lines_of_code ==
              Cardinality({k \in 1..Len(normalized_lines) :
                             normalized_lines[k] # <<>>})
            loops == _count_keywords(text, LOOP_KEYWORDS[normalized_language])
            conditionals ==
              _count_keywords(text, CONDITIONAL_KEYWORDS[normalized_language])
            functions ==
              _count_keywords(text, FUNCTION_KEYWORDS[normalized_language])
            duplicate_lines == _count_duplicate_lines(normalized_lines)
            repeated_sequences == _count_repeated_sequences(normalized_lines)
            report ==
              ComplexityReport(normalized_language, lines_of_code, loops,
                               conditionals, functions, duplicate_lines,
                               repeated_sequences,
                               _estimate_complexity(loops, conditionals, functions,
                                 duplicate_lines + repeated_sequences))
        IN  Returned(as_dict(report))

(***************************************************************************)
(* project_analyzer.py: the language classifier                            *)
(***************************************************************************)
ext_py == <<".","p","y">>
ext_java == <<".","j","a","v","a">>
ext_js == <<".","j","s">>
ext_jsx == <<".","j","s","x">>
ext_html == <<".","h","t","m","l">>
ext_htm == <<".","h","t","m">>
ext_css == <<".","c","s","s">>

NoLanguage == "None"

\* Path(filename).name: the last component, "" and "." components dropped
PathName(filename) ==
  LET parts == SelectSeq(SplitSlash(filename),
                         LAMBDA c : c # <<>> /\ c # <<DOT>>)
  IN  IF parts = <<>> THEN <<>> ELSE parts[Len(parts)]

\* Path(filename).suffix: from the last dot of the name, unless that dot
\* opens or closes the name
PathSuffix(filename) ==
  LET name == PathName(filename)
      dots == {k \in 1..Len(name) : name[k] = DOT}
  IN  IF dots = {} THEN <<>>
      ELSE LET i == CHOOSE k \in dots : \A m \in dots : m <= k
           IN  IF 1 < i /\ i < Len(name) THEN SubSeq(name, i, Len(name))
               ELSE <<>>

detect_language_from_filename(filename) ==
  LET ext == LowerStr(PathSuffix(filename))
  IN  CASE ext = ext_py -> "python"
        [] ext = ext_java -> "java"
        [] ext = ext_js -> "javascript"
        [] ext = ext_jsx -> "javascript"
        [] ext = ext_html -> "html"
        [] ext = ext_htm -> "html"
        [] ext = ext_css -> "css"
        [] OTHER -> NoLanguage

(***************************************************************************)
(* project_analyzer.py: the dependency token extractor.  Each pattern is   *)
(* matched as re matches it (leftmost, greedy or lazy as written, with the *)
(* flags MULTILINE and IGNORECASE the source passes for every language).   *)
(***************************************************************************)
w_import == <<"i","m","p","o","r","t">>
w_from == <<"f","r","o","m">>
w_require == <<"r","e","q","u","i","r","e">>
w_script == <<"<","s","c","r","i","p","t">>
w_link == <<"<","l","i","n","k">>
w_src == <<"s","r","c","=">>
w_href == <<"h","r","e","f","=">>
w_atimport == <<"@","i","m","p","o","r","t">>

Quotes == {"'", "\""}

NoMatch == [ok |-> FALSE, end |-> 0, token |-> <<>>]
Match(e, tok) == [ok |-> TRUE, end |-> e, token |-> tok]

\* ^ under re.MULTILINE
AtLineStart(text, p) == p = 1 \/ (p > 1 /\ p - 1 <= Len(text) /\ text[p - 1] = NL)

\* the first position from p on that holds no white space (Len + 1 if none)
SkipSpaces(text, p) ==
  IF \A k \in p..Len(text) : IsSpace(text[k]) THEN Len(text) + 1
  ELSE CHOOSE k \in p..Len(text) :
         ~IsSpace(text[k]) /\ \A m \in p..(k - 1) : IsSpace(text[m])

\* \s+ at p: the position after the run, 0 when no white space stands at p
SpacesPlus(text, p) ==
  IF p <= Len(text) /\ IsSpace(text[p]) THEN SkipSpaces(text, p) ELSE 0

\* the last position of the run [a-zA-Z0-9_]* that starts at p
IdentEnd(text, p) ==
  IF \A k \in p..Len(text) : IsIdentChar(text[k]) THEN Len(text)
  ELSE (CHOOSE k \in p..Len(text) :
          ~IsIdentChar(text[k]) /\ \A m \in p..(k - 1) : IsIdentChar(text[m])) - 1

\* the last position of ID(?:\.ID)* whose first ID ends at e
RECURSIVE DottedEnd(_, _)
DottedEnd(text, e) ==
  IF e + 2 <= Len(text) /\ text[e + 1] = DOT /\ IsIdentStart(text[e + 2])
    THEN DottedEnd(text, IdentEnd(text, e + 2))
    ELSE e

\* ([a-zA-Z_][a-zA-Z0-9_]*(?:\.[a-zA-Z_][a-zA-Z0-9_]*)*) at p: its last position, or 0
DottedPath(text, p) ==
  IF p <= Len(text) /\ IsIdentStart(text[p])
    THEN DottedEnd(text, IdentEnd(text, p))
    ELSE 0

\* ['"]([^'"]+)['"] at p: the group and the position of the closing quote
Quoted(text, p) ==
  IF p <= Len(text) /\ text[p] \in Quotes
       /\ \E k \in (p + 1)..Len(text) : text[k] \in Quotes
    THEN LET c == CHOOSE k \in (p + 1)..Len(text) :
                    text[k] \in Quotes /\ \A m \in (p + 1)..(k - 1) : text[m] \notin Quotes
         IN  IF c > p + 1 THEN Match(c, SubSeq(text, p + 1, c - 1)) ELSE NoMatch
    ELSE NoMatch

\* r"^\s*import\s+(DOTTED)"
MatchImportLine(text, p) ==
  IF ~AtLineStart(text, p) THEN NoMatch
  ELSE LET q == SkipSpaces(text, p)
       IN  IF ~MatchAtI(text, q, w_import) THEN NoMatch
           ELSE LET s == SpacesPlus(text, q + Len(w_import))
                    e == IF s = 0 THEN 0 ELSE DottedPath(text, s)
                IN  IF e = 0 THEN NoMatch ELSE Match(e, SubSeq(text, s, e))

\* r"^\s*from\s+(DOTTED)\s+import"
MatchFromLine(text, p) ==
  IF ~AtLineStart(text, p) THEN NoMatch
  ELSE LET q == SkipSpaces(text, p)
       IN  IF ~MatchAtI(text, q, w_from) THEN NoMatch
           ELSE LET s == SpacesPlus(text, q + Len(w_from))
                    e == IF s = 0 THEN 0 ELSE DottedPath(text, s)
                    t == IF e = 0 THEN 0 ELSE SpacesPlus(text, e + 1)
                IN  IF t # 0 /\ MatchAtI(text, t, w_import)
                      THEN Match(t + Len(w_import) - 1, SubSeq(text, s, e))
                      ELSE NoMatch

\* r"\s+from\s+['\"]([^'\"]+)['\"]" at b
MatchFromClause(text, b) ==
  LET c == SpacesPlus(text, b)
      d == IF c # 0 /\ MatchAtI(text, c, w_from)
             THEN SpacesPlus(text, c + Len(w_from)) ELSE 0
  IN  IF d = 0 THEN NoMatch ELSE Quoted(text, d)

\* r"import\s+.*?\s+from\s+['\"]([^'\"]+)['\"]": \s+ is greedy and gives back,
\* .*? is lazy and does not cross a line break
MatchEsImport(text, p) ==
  IF ~MatchAtI(text, p, w_import) THEN NoMatch
  ELSE LET first == p + Len(w_import)
           wsEnd == SpacesPlus(text, first)
           Bs(a) == {b \in a..Len(text) :
                       /\ \A k \in a..(b - 1) : text[k] # NL
                       /\ MatchFromClause(text, b).ok}
           As == {a \in (first + 1)..wsEnd : Bs(a) # {}}
       IN  IF wsEnd = 0 \/ As = {} THEN NoMatch
           ELSE LET a == CHOOSE x \in As : \A y \in As : y <= x
                    b == CHOOSE x \in Bs(a) : \A y \in Bs(a) : x <= y
                IN  MatchFromClause(text, b)

\* r"<word>\s*\(\s*['\"]([^'\"]+)['\"]" for require( and import(
MatchCall(text, p, word) ==
  IF ~MatchAtI(text, p, word) THEN NoMatch
  ELSE LET q == SkipSpaces(text, p + Len(word))
       IN  IF q <= Len(text) /\ text[q] = "("
             THEN Quoted(text, SkipSpaces(text, q + 1))
             ELSE NoMatch

\* r"<tag[^>]+attr=[\"']([^\"']+)[\"']": [^>]+ is greedy and gives back, so
\* the last attr= of the run that is followed by a quoted value is taken
MatchTagAttr(text, p, tag, attr) ==
  IF ~MatchAtI(text, p, tag) THEN NoMatch
  ELSE LET first == p + Len(tag)
           Ss == {s \in (first + 1)..Len(text) :
                    /\ \A k \in first..(s - 1) : text[k] # ">"
                    /\ MatchAtI(text, s, attr)
                    /\ Quoted(text, s + Len(attr)).ok}
       IN  IF Ss = {} THEN NoMatch
           ELSE Quoted(text, (CHOOSE x \in Ss : \A y \in Ss : y <= x) + Len(attr))

\* r"@import\s+[\"']([^\"']+)[\"']"
MatchCssImport(text, p) ==
  IF ~MatchAtI(text, p, w_atimport) THEN NoMatch
  ELSE LET s == SpacesPlus(text, p + Len(w_atimport))
       IN  IF s = 0 THEN NoMatch ELSE Quoted(text, s)

\* the patterns of each language, by name
PatternsOf(language) ==
  CASE language = "python" -> <<"import_line", "from_line">>
    [] language = "java" -> <<"import_line">>
    [] language = "javascript" -> <<"es_import", "require", "dynamic_import">>
    [] language = "html" -> <<"script_src", "link_href">>
    [] language = "css" -> <<"css_import">>
    [] OTHER -> <<>>

MatchPattern(pattern, text, p) ==
  CASE pattern = "import_line" -> MatchImportLine(text, p)
    [] pattern = "from_line" -> MatchFromLine(text, p)
    [] pattern = "es_import" -> MatchEsImport(text, p)
    [] pattern = "require" -> MatchCall(text, p, w_require)
    [] pattern = "dynamic_import" -> MatchCall(text, p, w_import)
    [] pattern = "script_src" -> MatchTagAttr(text, p, w_script, w_src)
    [] pattern = "link_href" -> MatchTagAttr(text, p, w_link, w_href)
    [] pattern = "css_import" -> MatchCssImport(text, p)

\* re.findall(pattern, code, re.MULTILINE | re.IGNORECASE): the groups of the
\* matches found from left to right, none overlapping another
RECURSIVE FindAllFrom(_, _, _)
FindAllFrom(pattern, text, p) ==
  IF p > Len(text) THEN {}
  ELSE LET m == MatchPattern(pattern, text, p)
       IN  IF m.ok
             THEN {m.token} \cup FindAllFrom(pattern, text, m.end + 1)
             ELSE FindAllFrom(pattern, text, p + 1)

find_imports_and_dependencies(code, language) ==
  LET patterns == PatternsOf(language)
  IN  UNION {FindAllFrom(patterns[k], code, 1) : k \in 1..Len(patterns)}

(***************************************************************************)
(* The state: one interpreter process running analyze_project, the         *)
(* filesystem it looks at, and a direct caller of the path resolver.       *)
(***************************************************************************)
VARIABLES
  project_files,     \* the argument: a dict path -> content, in insertion order
  fs_files,          \* the regular files on disk, by absolute normalised path
  fs_dirs,           \* the directories on disk
  hash_seed,         \* the process's str hash seed: it orders every set of str
  pc,                \* where analyze_project stands
  idx,               \* first pass: the next item of project_files
  file_analyses,     \* dict path -> node, in insertion order
  dependency_graph,  \* dict path -> set of tokens, in insertion order
  interconnections,  \* the list of edges
  gi,                \* second pass: the item of dependency_graph being resolved
  di,                \* second pass: the next token of that item, in set order
  result,            \* what analyze_project returned
  prev_result,       \* what the run before returned
  prev_seed,         \* the hash seed of the run before
  rs_dep,            \* a direct call of normalize_dependency_path: its token,
  rs_file,           \*   its referencing file,
  rs_out,            \*   what it returned,
  rs_local,          \*   and its local dep at the return
  cx_in,             \* a direct call of the complexity functions: the arguments
  cx_out,            \*   and what came back
  ex_in,             \* a direct call of the token extractor: the arguments
  ex_out             \*   and what came back

vars ==
  <<project_files, fs_files, fs_dirs, hash_seed, pc, idx, file_analyses,
    dependency_graph, interconnections, gi, di, result,
    prev_result, prev_seed, rs_dep, rs_file, rs_out, rs_local,
    cx_in, cx_out, ex_in, ex_out>>

(***************************************************************************)
(* os.path (posixpath), on strings                                         *)
(***************************************************************************)
\* the directory every run is given as project_root
PROJECT_ROOT == <<"/","w","/","p">>

pardir == <<DOT, DOT>>
curdir == <<DOT>>

\* os.path.join(a, b)
PathJoin2(a, b) ==
  IF StartsWith(b, <<SLASH>>) THEN b
  ELSE IF a = <<>> \/ a[Len(a)] = SLASH THEN a \o b
  ELSE a \o <<SLASH>> \o b

\* the component loop of normpath
RECURSIVE NormComps(_, _, _, _)
NormComps(comps, k, acc, initial_slashes) ==
  IF k > Len(comps) THEN acc
  ELSE LET comp == comps[k]
       IN  IF comp = <<>> \/ comp = curdir
             THEN NormComps(comps, k + 1, acc, initial_slashes)
           ELSE IF \/ comp # pardir
                   \/ (initial_slashes = 0 /\ acc = <<>>)
                   \/ (acc # <<>> /\ acc[Len(acc)] = pardir)
             THEN NormComps(comps, k + 1, Append(acc, comp), initial_slashes)
           ELSE IF acc # <<>>
             THEN NormComps(comps, k + 1, SubSeq(acc, 1, Len(acc) - 1), initial_slashes)
           ELSE NormComps(comps, k + 1, acc, initial_slashes)

\* os.path.normpath(path)
normpath(path) ==
  IF path = <<>> THEN curdir
  ELSE LET initial_slashes ==
             IF ~StartsWith(path, <<SLASH>>) THEN 0
             ELSE IF StartsWith(path, <<SLASH, SLASH>>)
                       /\ ~StartsWith(path, <<SLASH, SLASH, SLASH>>) THEN 2
             ELSE 1
           joined == JoinSlash(NormComps(SplitSlash(path), 1, <<>>, initial_slashes))
           out == [k \in 1..initial_slashes |-> SLASH] \o joined
       IN  IF out = <<>> THEN curdir ELSE out

\* os.path.dirname(p)
dirname(p) ==
  LET slashes == {k \in 1..Len(p) : p[k] = SLASH}
      i == IF slashes = {} THEN 0 ELSE CHOOSE k \in slashes : \A m \in slashes : m <= k
      head == Slice(p, 1, i)
  IN  IF head # <<>> /\ \E k \in 1..Len(head) : head[k] # SLASH
        THEN LET last == CHOOSE k \in 1..Len(head) :
                           head[k] # SLASH /\ \A m \in (k + 1)..Len(head) : head[m] = SLASH
             IN  SubSeq(head, 1, last)
        ELSE head

\* the longest common prefix of two component lists
RECURSIVE CommonPrefixLen(_, _, _)
CommonPrefixLen(a, b, k) ==
  IF k < Len(a) /\ k < Len(b) /\ a[k + 1] = b[k + 1]
    THEN CommonPrefixLen(a, b, k + 1)
    ELSE k

\* os.path.relpath(path, start), both absolute here, so abspath is normpath
relpath(path, start) ==
  LET nonempty(q) == SelectSeq(q, LAMBDA c : c # <<>>)
      start_list == nonempty(SplitSlash(normpath(start)))
      path_list == nonempty(SplitSlash(normpath(path)))
      i == CommonPrefixLen(start_list, path_list, 0)
      rel_list == [k \in 1..(Len(start_list) - i) |-> pardir]
                    \o Slice(path_list, i + 1, Len(path_list))
  IN  IF rel_list = <<>> THEN curdir ELSE JoinSlash(rel_list)

\* os.path.exists and os.path.isfile read the disk
exists(path) == path \in fs_files \/ path \in fs_dirs
isfile(path) == path \in fs_files

(***************************************************************************)
(* project_analyzer.py: the path resolver                                  *)
(***************************************************************************)
\* the value None, which no str equals
None == <<"None">>

pre_http == <<"h","t","t","p",":","/","/">>
pre_https == <<"h","t","t","p","s",":","/","/">>
pre_slashes == <<"/","/">>
EXTERNAL_PREFIXES == <<pre_http, pre_https, pre_slashes>>

\* the list of extensions without its first entry
ExtensionsWithoutPy == <<ext_java, ext_js, ext_jsx, ext_html, ext_css>>

COMMON_EXTENSIONS == <<ext_py, ext_java, ext_js, ext_jsx, ext_html, ext_css>>

\* dep.split("?")[0].split("#")[0]
StripQueryFragment(dep) == BeforeFirst(BeforeFirst(dep, "?"), "#")

\* dep.startswith(("http://", "https://", "//"))
IsExternal(dep) ==
  \E k \in 1..Len(EXTERNAL_PREFIXES) : StartsWith(dep, EXTERNAL_PREFIXES[k])

\* dep.lstrip("./"): the argument is a set of characters, not a prefix
StripLeading(dep) == LStripChars(dep, {DOT, SLASH})

\* the loop over the common extensions: the first candidate that exists
FirstExistingExtension(potential) ==
  LET hits == {k \in 1..Len(COMMON_EXTENSIONS) : exists(potential \o COMMON_EXTENSIONS[k])}
  IN  IF hits = {} THEN 0 ELSE CHOOSE k \in hits : \A m \in hits : k <= m

\* the resolver with the root-relative candidate tried before the one
\* relative to the referencing file
ResolveRootFirst(dep0, current_file, project_root) ==
  LET dep1 == StripQueryFragment(dep0)
  IN  IF IsExternal(dep1) THEN None
      ELSE
        LET dep == StripLeading(dep1)
            current_dir == dirname(current_file)
            potential1 ==
              IF current_dir # <<>>
                THEN normpath(PathJoin2(PathJoin2(project_root, current_dir), dep))
                ELSE normpath(PathJoin2(project_root, dep))
            potential == normpath(PathJoin2(project_root, dep))
            k == FirstExistingExtension(potential)
        IN  IF exists(potential) /\ isfile(potential)
              THEN relpath(potential, project_root)
            ELSE IF exists(potential1) /\ isfile(potential1)
              THEN relpath(potential1, project_root)
            ELSE IF k # 0
              THEN relpath(potential \o COMMON_EXTENSIONS[k], project_root)
            ELSE None

normalize_dependency_path(dep0, current_file, project_root) ==
  LET dep1 == StripQueryFragment(dep0)
  IN  IF IsExternal(dep1) THEN None
      ELSE
        LET dep == StripLeading(dep1)
            current_dir == dirname(current_file)
            potential1 ==
              IF current_dir # <<>>
                THEN normpath(PathJoin2(PathJoin2(project_root, current_dir), dep))
                ELSE normpath(PathJoin2(project_root, dep))
            potential == normpath(PathJoin2(project_root, dep))
            k == FirstExistingExtension(potential)
        IN  IF exists(potential1) /\ isfile(potential1)
              THEN relpath(potential1, project_root)
            ELSE IF exists(potential) /\ isfile(potential)
              THEN relpath(potential, project_root)
            ELSE IF k # 0
              THEN relpath(potential \o COMMON_EXTENSIONS[k], project_root)
            ELSE None

(***************************************************************************)
(* Python dicts and sets                                                   *)
(***************************************************************************)
\* A dict that keeps its insertion order: a sequence of items [key, value].
DictHas(d, key) == \E k \in 1..Len(d) : d[k].key = key
DictLookup(d, key) == d[CHOOSE k \in 1..Len(d) : d[k].key = key].value
\* d[key] = value: a key already present keeps its place
DictSet(d, key, value) ==
  IF DictHas(d, key)
    THEN [k \in 1..Len(d) |-> IF d[k].key = key THEN [key |-> key, value |-> value] ELSE d[k]]
    ELSE Append(d, [key |-> key, value |-> value])
DictKeys(d) == {d[k].key : k \in 1..Len(d)}

\* The hash seeds a process may start with.  Iterating a set of str visits it
\* in an order the seed fixes; two seeds stand for two such orders.
HashSeeds == {0, 1}

RECURSIVE SetToSeq(_)
SetToSeq(S) ==
  IF S = {} THEN <<>>
  ELSE LET x == CHOOSE y \in S : TRUE IN <<x>> \o SetToSeq(S \ {x})

Reverse(q) == [k \in 1..Len(q) |-> q[Len(q) + 1 - k]]

\* list(S), or a for loop over S, in a process with the given seed
IterationOrder(S, seed) == IF seed = 0 THEN SetToSeq(S) ELSE Reverse(SetToSeq(S))

(***************************************************************************)
(* The inputs: files a caller may submit and disks it may have prepared    *)
(***************************************************************************)
p_a_py == <<"a",".","p","y">>
p_b_py == <<"b",".","p","y">>
p_sub_b_py == <<"s","u","b","/","b",".","p","y">>
p_d_java == <<"d",".","j","a","v","a">>
p_bad_py == <<"b","a","d",".","p","y">>
p_sub_m_py == <<"s","u","b","/","m",".","p","y">>
p_k_py == <<"k",".","p","y">>
p_index_html == <<"i","n","d","e","x",".","h","t","m","l">>
p_app_js == <<"a","p","p",".","j","s">>
p_readme == <<"R","E","A","D","M","E">>

\* "import b\nprint(1)"
t_import_b == <<"i","m","p","o","r","t"," ","b",NL,"p","r","i","n","t","(","1",")">>
\* "x = 1"
t_assign == <<"x"," ","="," ","1">>
\* "from b import x\nimport b.py\nimport b": two tokens, b met twice
t_two_imports == <<"f","r","o","m"," ","b"," ","i","m","p","o","r","t"," ","x",NL,"i","m","p","o","r","t"," ","b",".","p","y",NL,"i","m","p","o","r","t"," ","b">>
\* r"\bfor\b \bif\b \bif\b \bdef\b" and four equal lines y
t_keywords == <<BSL,"b","f","o","r",BSL,"b"," ",BSL,"b","i","f",BSL,"b"," ",BSL,"b","i","f",BSL,"b"," ",BSL,"b","d","e","f",BSL,"b",NL,"y",NL,"y",NL,"y",NL,"y">>
\* <script src="app.js"></script>
t_html == <<"<","s","c","r","i","p","t"," ","s","r","c","=","\"","a","p","p",".","j","s","\"",">","<","/","s","c","r","i","p","t",">">>

File(path, content) == [path |-> path, content |-> content]

Catalogue ==
  { File(p_a_py, StrContent(t_import_b)),
    File(p_b_py, StrContent(t_assign)),
    File(p_sub_b_py, StrContent(t_assign)),
    File(p_d_java, StrContent(t_assign)),
    File(p_bad_py, NoneContent),
    File(p_sub_m_py, StrContent(t_two_imports)),
    File(p_k_py, StrContent(t_keywords)),
    File(p_index_html, StrContent(t_html)),
    File(p_readme, StrContent(t_assign)) }

\* the files of projects that hold web files beside python and java files
WebCatalogue ==
  { File(p_index_html, StrContent(t_html)),
    \* require('./b.py')
    File(p_app_js, StrContent(<<"r","e","q","u","i","r","e","(","'",".","/","b",".","p","y","'",")">>)),
    \* @import "b.py"
    File(<<"s",".","c","s","s">>, StrContent(<<"@","i","m","p","o","r","t"," ","\"","b",".","p","y","\"">>)),
    \* "import b;"
    File(<<"l",".","j","a","v","a">>, StrContent(<<"i","m","p","o","r","t"," ","b",";">>)),
    File(p_a_py, StrContent(t_import_b)),
    File(p_b_py, StrContent(t_assign)),
    File(p_bad_py, NoneContent) }

\* the most files a submitted project holds
MaxFiles == 2

\* the dicts path -> content of at most MaxFiles files
FileMaps ==
  {q \in UNION {[1..n -> Catalogue] : n \in 1..MaxFiles} :
     \A i, j \in 1..Len(q) : i # j => q[i].path # q[j].path}

UnderRoot(path) == PathJoin2(PROJECT_ROOT, path)

BaseDirs == {<<SLASH>>, <<"/","w">>, PROJECT_ROOT}

\* every file of the catalogue was extracted under the project root
DiskExtracted ==
  [files |-> {UnderRoot(f.path) : f \in Catalogue},
   dirs |-> BaseDirs \cup {UnderRoot(<<"s","u","b">>)}]
\* only some of the files were written: no sub/b.py
DiskPartial ==
  [files |-> DiskExtracted.files \ {UnderRoot(p_sub_b_py)},
   dirs |-> DiskExtracted.dirs]
\* every file, and a regular file named b beside b.py
DiskShadowed ==
  [files |-> DiskExtracted.files \cup {UnderRoot(<<"b">>)},
   dirs |-> DiskExtracted.dirs]
\* nothing was written under the project root
DiskEmpty == [files |-> {}, dirs |-> BaseDirs]

Disks == {DiskPartial, DiskExtracted, DiskShadowed}

(***************************************************************************)
(* project_analyzer.py: analyze_project                                    *)
(***************************************************************************)
NoResult == EmptyDict

\* the guard of the first pass: the file is skipped, no node is made
Skipped(language) == language = NoLanguage \/ language \notin SUPPORTED_LANGUAGES

\* the node of a file whose analysis succeeded
AnalysisNode(language, metrics, dependencies, seed) ==
  [language |-> language,
   metrics |-> metrics,
   dependencies |-> IterationOrder(dependencies, seed),
   lines_of_code |-> DictGet(metrics, "lines_of_code", 0)]

\* the node the except clause makes
ErrorNode(language, message) ==
  [language |-> language,
   error |-> message,
   metrics |-> EmptyDict,
   dependencies |-> <<>>]

\* the try block on one file: the complexity analysis comes first, and an
\* exception of it leaves the token extractor uncalled
TryAnalyze(content, language) ==
  LET m == analyze_code_complexity(content, language)
  IN  IF m.raised THEN [raised |-> TRUE, message |-> m.message, metrics |-> EmptyDict, dependencies |-> {}]
      ELSE [raised |-> FALSE, message |-> "", metrics |-> m.value,
            dependencies |-> find_imports_and_dependencies(content.text, language)]

\* The try block on each file of the catalogue.  It is a function of the file
\* alone, so its values are worked out once and looked up afterwards.
AnalysisTable ==
  {[file |-> f, r |-> TryAnalyze(f.content, detect_language_from_filename(f.path))] :
     f \in Catalogue \cup WebCatalogue}

\* a try block whose line counter is shared by the files of the run
TryAnalyzeSharedCounter(file) ==
  LET r == TryAnalyze(file.content, detect_language_from_filename(file.path))
      before == SumSeq([k \in 1..Len(file_analyses) |->
                          DictGet(file_analyses[k].value, "lines_of_code", 0)])
  IN  IF r.raised THEN r
      ELSE [r EXCEPT !.metrics = [@ EXCEPT !.lines_of_code = @ + before]]

\* the try block on an item of project_files
TryAnalyzeFile(file) == (CHOOSE e \in AnalysisTable : e.file = file).r

\* the first loop as a whole: the dict of nodes it leaves for a file map
RECURSIVE FirstPassFrom(_, _, _, _)
FirstPassFrom(files, k, analyses, seed) ==
  IF k > Len(files) THEN analyses
  ELSE LET filepath == files[k].path
           language == detect_language_from_filename(filepath)
           r == TryAnalyzeFile(files[k])
       IN  IF Skipped(language) THEN FirstPassFrom(files, k + 1, analyses, seed)
           ELSE FirstPassFrom(files, k + 1,
                  DictSet(analyses, filepath,
                          IF r.raised THEN ErrorNode(language, r.message)
                          ELSE AnalysisNode(language, r.metrics, r.dependencies, seed)),
                  seed)

FirstPassNodes(files, seed) == FirstPassFrom(files, 1, <<>>, seed)

\* the kind of an edge that leaves a file of the given language
EdgeType(language) ==
  IF language \in {"python", "java", "javascript"} THEN "import" ELSE "reference"

\* an edge for every resolved token, node or not
EdgesOfTokenUnchecked(analyses, filepath, dep) ==
  LET resolved == normalize_dependency_path(dep, filepath, PROJECT_ROOT)
  IN  IF resolved # None /\ resolved # <<>>
        THEN << [from |-> filepath, to |-> resolved,
                 type |-> EdgeType(DictLookup(analyses, filepath).language)] >>
        ELSE <<>>

\* an edge only for a target the file has no edge to yet
EdgesOfTokenOncePerTarget(analyses, filepath, dep) ==
  LET resolved == normalize_dependency_path(dep, filepath, PROJECT_ROOT)
  IN  IF /\ resolved # None /\ resolved # <<>> /\ DictHas(analyses, resolved)
         /\ \A k \in 1..Len(interconnections) :
              ~(interconnections[k].from = filepath /\ interconnections[k].to = resolved)
        THEN << [from |-> filepath, to |-> resolved,
                 type |-> EdgeType(DictLookup(analyses, filepath).language)] >>
        ELSE <<>>

\* the edge a resolved token makes, or none
EdgesOfToken(analyses, filepath, dep) ==
  LET resolved == normalize_dependency_path(dep, filepath, PROJECT_ROOT)
  IN  IF resolved # None /\ resolved # <<>> /\ DictHas(analyses, resolved)
        THEN << [from |-> filepath, to |-> resolved,
                 type |-> EdgeType(DictLookup(analyses, filepath).language)] >>
        ELSE <<>>

\* the aggregate statistics and the returned dict
Summary(analyses, edges, seed) ==
  LET nodes == [k \in 1..Len(analyses) |-> analyses[k].value]
      total_files == Len(analyses)
      total_loc == SumSeq([k \in 1..Len(nodes) |-> DictGet(nodes[k], "lines_of_code", 0)])
      total_complexity ==
        SumSeq([k \in 1..Len(nodes) |->
                  DictGet(DictGet(nodes[k], "metrics", EmptyDict), "estimated_complexity", 0)])
      languages_used == {nodes[k].language : k \in 1..Len(nodes)}
  IN  [total_files |-> total_files,
       total_lines_of_code |-> total_loc,
       total_complexity |-> Round2(total_complexity * 10),
       languages |-> IterationOrder(languages_used, seed),
       interconnection_count |-> Len(edges)]

ProjectAnalysis(analyses, edges, seed) ==
  [files |-> analyses, interconnections |-> edges, summary |-> Summary(analyses, edges, seed)]

\* a list that outlives the call
KeptInterconnections(previous) == previous

\* The locals of a call that has just begun.  Each is a literal evaluated
\* by the call itself, so it holds nothing of what the call before left.
NewFileAnalyses(previous) == <<>>
NewInterconnections(previous) == <<>>
NewDependencyGraph(previous) == <<>>

runVars == <<pc, idx, file_analyses, dependency_graph, interconnections, gi, di, result>>
inputVars == <<project_files, fs_files, fs_dirs>>
fnVars == <<cx_in, cx_out, ex_in, ex_out>>
probeVars == <<rs_dep, rs_file, rs_out, rs_local, fnVars>>

\* no direct call is under way
NoCall == [kind |-> "none"]

\* First pass, a file the classifier or the supported set excludes.
SkipFile ==
  /\ pc = "first_pass"
  /\ idx <= Len(project_files)
  /\ Skipped(detect_language_from_filename(project_files[idx].path))
  /\ idx' = idx + 1
  /\ UNCHANGED <<pc, file_analyses, dependency_graph, interconnections, gi, di, result>>
  /\ UNCHANGED <<inputVars, hash_seed, prev_result, prev_seed, probeVars>>

\* First pass, a file whose try block runs to its end.
AnalyzeFile ==
  /\ pc = "first_pass"
  /\ idx <= Len(project_files)
  /\ LET filepath == project_files[idx].path
         language == detect_language_from_filename(filepath)
         r == TryAnalyzeFile(project_files[idx])
     IN  /\ ~Skipped(language)
         /\ ~r.raised
         /\ file_analyses' = DictSet(file_analyses, filepath,
                               AnalysisNode(language, r.metrics, r.dependencies, hash_seed))
         /\ dependency_graph' = DictSet(dependency_graph, filepath, r.dependencies)
  /\ idx' = idx + 1
  /\ UNCHANGED <<pc, interconnections, gi, di, result>>
  /\ UNCHANGED <<inputVars, hash_seed, prev_result, prev_seed, probeVars>>

\* First pass without the except clause: the exception leaves the call.
RecordFailureUncaught ==
  /\ pc = "first_pass"
  /\ idx <= Len(project_files)
  /\ LET language == detect_language_from_filename(project_files[idx].path)
     IN  /\ ~Skipped(language)
         /\ TryAnalyzeFile(project_files[idx]).raised
  /\ pc' = "raised"
  /\ UNCHANGED <<idx, file_analyses, dependency_graph, interconnections, gi, di, result>>
  /\ UNCHANGED <<inputVars, hash_seed, prev_result, prev_seed, probeVars>>

\* First pass, a file whose try block raises: the except clause.
RecordFailure ==
  /\ pc = "first_pass"
  /\ idx <= Len(project_files)
  /\ LET filepath == project_files[idx].path
         language == detect_language_from_filename(filepath)
         r == TryAnalyzeFile(project_files[idx])
     IN  /\ ~Skipped(language)
         /\ r.raised
         /\ file_analyses' = DictSet(file_analyses, filepath, ErrorNode(language, r.message))
  /\ idx' = idx + 1
  /\ UNCHANGED <<pc, dependency_graph, interconnections, gi, di, result>>
  /\ UNCHANGED <<inputVars, hash_seed, prev_result, prev_seed, probeVars>>

\* The second loop begins one file early: the last file is never analysed.
BeginSecondPassEarly ==
  /\ pc = "first_pass"
  /\ idx >= Len(project_files)
  /\ pc' = "second_pass"
  /\ gi' = 1
  /\ di' = 1
  /\ UNCHANGED <<idx, file_analyses, dependency_graph, interconnections, result>>
  /\ UNCHANGED <<inputVars, hash_seed, prev_result, prev_seed, probeVars>>

\* The first loop is exhausted; the second begins.
BeginSecondPass ==
  /\ pc = "first_pass"
  /\ idx > Len(project_files)
  /\ pc' = "second_pass"
  /\ gi' = 1
  /\ di' = 1
  /\ UNCHANGED <<idx, file_analyses, dependency_graph, interconnections, result>>
  /\ UNCHANGED <<inputVars, hash_seed, prev_result, prev_seed, probeVars>>

\* Second pass, one token of the current file.
ResolveToken ==
  /\ pc = "second_pass"
  /\ gi <= Len(dependency_graph)
  /\ LET deps == IterationOrder(dependency_graph[gi].value, hash_seed)
     IN  /\ di <= Len(deps)
         /\ interconnections' =
              interconnections \o EdgesOfToken(file_analyses, dependency_graph[gi].key, deps[di])
  /\ di' = di + 1
  /\ UNCHANGED <<pc, idx, file_analyses, dependency_graph, gi, result>>
  /\ UNCHANGED <<inputVars, hash_seed, prev_result, prev_seed, probeVars>>

\* Second pass, the tokens of the current file are exhausted.
NextGraphItem ==
  /\ pc = "second_pass"
  /\ gi <= Len(dependency_graph)
  /\ di > Cardinality(dependency_graph[gi].value)
  /\ gi' = gi + 1
  /\ di' = 1
  /\ UNCHANGED <<pc, idx, file_analyses, dependency_graph, interconnections, result>>
  /\ UNCHANGED <<inputVars, hash_seed, prev_result, prev_seed, probeVars>>

\* The aggregate statistics and the return.
Aggregate ==
  /\ pc = "second_pass"
  /\ gi > Len(dependency_graph)
  /\ result' = ProjectAnalysis(file_analyses, interconnections, hash_seed)
  /\ pc' = "done"
  /\ UNCHANGED <<idx, file_analyses, dependency_graph, interconnections, gi, di>>
  /\ UNCHANGED <<inputVars, hash_seed, prev_result, prev_seed, probeVars>>

\* analyze_project is called with a project and a disk.
Init ==
  /\ project_files \in FileMaps
  /\ \E d \in Disks : fs_files = d.files /\ fs_dirs = d.dirs
  /\ hash_seed \in HashSeeds
  /\ pc = "first_pass"
  /\ idx = 1
  /\ file_analyses = NewFileAnalyses(<<>>)
  /\ dependency_graph = NewDependencyGraph(<<>>)
  /\ interconnections = NewInterconnections(<<>>)
  /\ gi = 0
  /\ di = 0
  /\ result = NoResult
  /\ prev_result = NoResult
  /\ prev_seed = 0
  /\ rs_dep = <<>>
  /\ rs_file = <<>>
  /\ rs_out = <<>>
  /\ rs_local = <<>>
  /\ cx_in = NoCall
  /\ cx_out = NoCall
  /\ ex_in = NoCall
  /\ ex_out = NoCall

Next ==
  \/ SkipFile
  \/ AnalyzeFile
  \/ RecordFailure
  \/ BeginSecondPass
  \/ ResolveToken
  \/ NextGraphItem
  \/ Aggregate

Spec == Init /\ [][Next]_vars

(***************************************************************************)
(* Two calls on the same input: the second in the same process, or in a    *)
(* process started anew, whose hash seed is drawn again.                   *)
(***************************************************************************)
BeginCall ==
  /\ pc' = "first_pass"
  /\ idx' = 1
  /\ file_analyses' = NewFileAnalyses(file_analyses)
  /\ dependency_graph' = NewDependencyGraph(dependency_graph)
  /\ interconnections' = NewInterconnections(interconnections)
  /\ gi' = 0
  /\ di' = 0
  /\ result' = NoResult
  /\ prev_result' = result
  /\ prev_seed' = hash_seed

CallAgain ==
  /\ pc = "done"
  /\ prev_result = NoResult
  /\ BeginCall
  /\ UNCHANGED <<inputVars, hash_seed, probeVars>>

RestartAndCall ==
  /\ pc = "done"
  /\ prev_result = NoResult
  /\ BeginCall
  /\ hash_seed' \in HashSeeds
  /\ UNCHANGED <<inputVars, probeVars>>

InitTwice ==
  /\ Init
  /\ fs_files = DiskPartial.files

NextTwice ==
  \/ Next
  \/ CallAgain
  \/ RestartAndCall

SpecTwice == InitTwice /\ [][NextTwice]_vars

(***************************************************************************)
(* The path resolver called on its own: any token, from a file at the root *)
(* or in a directory, over several disks.                                  *)
(***************************************************************************)
Pending == <<"pending">>

ProbePrefixes ==
  { <<>>, <<".","/">>, <<".",".","/">>, <<"/">>, <<".">>,
    pre_http, pre_https, pre_slashes,
    <<"f","t","p",":","/","/">>, <<"H","T","T","P",":","/","/">> }

ProbeStems ==
  { <<"b">>, p_b_py, p_sub_b_py, <<"m">>, <<"c","d","n","/","b",".","p","y">>,
    \* sub/../../b.py
    <<"s","u","b","/",".",".","/",".",".","/","b",".","p","y">> }

ProbeSuffixes ==
  { <<>>, <<"?","v","=","1">>, <<"#","t","o","p">> }

ProbeTokens ==
  {pre \o stem \o suf : pre \in ProbePrefixes, stem \in ProbeStems, suf \in ProbeSuffixes}

ProbeFiles == {p_a_py, p_sub_m_py}

\* directories named like URL schemes, holding regular files, and a b.css
\* beside b.py
DiskSchemes ==
  [files |-> DiskExtracted.files
               \cup {UnderRoot(<<"b",".","c","s","s">>),
                     UnderRoot(<<"f","t","p",":","/","b",".","p","y">>),
                     UnderRoot(<<"H","T","T","P",":","/","b",".","p","y">>),
                     UnderRoot(<<"h","t","t","p",":","/","b",".","p","y">>),
                     UnderRoot(<<"c","d","n","/","b",".","p","y">>)},
   dirs |-> DiskExtracted.dirs
              \cup {UnderRoot(<<"f","t","p",":">>), UnderRoot(<<"H","T","T","P",":">>),
                    UnderRoot(<<"h","t","t","p",":">>), UnderRoot(<<"c","d","n">>)}]

\* a directory m.py under the project root, and a regular file b.py in the
\* directory that holds the project root
DiskFolders ==
  [files |-> DiskExtracted.files \cup {<<"/","w","/","b",".","p","y">>},
   dirs |-> DiskExtracted.dirs \cup {UnderRoot(<<"m",".","p","y">>)}]

ProbeDisks == {DiskEmpty, DiskExtracted, DiskSchemes, DiskFolders}

\* the local dep of normalize_dependency_path when it returns: after line 71
\* for an external token, after line 78 for any other
LocalDep(dep0) ==
  LET dep1 == StripQueryFragment(dep0)
  IN  IF IsExternal(dep1) THEN dep1 ELSE StripLeading(dep1)

CallResolver ==
  /\ rs_out = Pending
  /\ rs_out' = normalize_dependency_path(rs_dep, rs_file, PROJECT_ROOT)
  /\ rs_local' = LocalDep(rs_dep)
  /\ UNCHANGED <<rs_dep, rs_file, fnVars>>
  /\ UNCHANGED <<inputVars, runVars, hash_seed, prev_result, prev_seed>>

InitResolve ==
  /\ rs_dep \in ProbeTokens
  /\ rs_file \in ProbeFiles
  /\ rs_out = Pending
  /\ rs_local = Pending
  /\ cx_in = NoCall
  /\ cx_out = NoCall
  /\ ex_in = NoCall
  /\ ex_out = NoCall
  /\ \E d \in ProbeDisks : fs_files = d.files /\ fs_dirs = d.dirs
  /\ project_files = <<>>
  /\ hash_seed = 0
  /\ pc = "idle"
  /\ idx = 0
  /\ file_analyses = <<>>
  /\ dependency_graph = <<>>
  /\ interconnections = <<>>
  /\ gi = 0
  /\ di = 0
  /\ result = NoResult
  /\ prev_result = NoResult
  /\ prev_seed = 0

NextResolve == CallResolver

SpecResolve == InitResolve /\ [][NextResolve]_vars

(***************************************************************************)
(* analyze_project on projects of web files beside python and java files    *)
(***************************************************************************)
WebFileMaps ==
  {q \in UNION {[1..n -> WebCatalogue] : n \in 1..MaxFiles} :
     \A i, j \in 1..Len(q) : i # j => q[i].path # q[j].path}

\* every file of the web catalogue was extracted under the project root
DiskWeb == [files |-> {UnderRoot(f.path) : f \in WebCatalogue}, dirs |-> BaseDirs]

InitWeb ==
  /\ project_files \in WebFileMaps
  /\ fs_files = DiskWeb.files
  /\ fs_dirs = DiskWeb.dirs
  /\ hash_seed \in HashSeeds
  /\ pc = "first_pass"
  /\ idx = 1
  /\ file_analyses = NewFileAnalyses(<<>>)
  /\ dependency_graph = NewDependencyGraph(<<>>)
  /\ interconnections = NewInterconnections(<<>>)
  /\ gi = 0
  /\ di = 0
  /\ result = NoResult
  /\ prev_result = NoResult
  /\ prev_seed = 0
  /\ rs_dep = <<>>
  /\ rs_file = <<>>
  /\ rs_out = <<>>
  /\ rs_local = <<>>
  /\ cx_in = NoCall
  /\ cx_out = NoCall
  /\ ex_in = NoCall
  /\ ex_out = NoCall

SpecWeb == InitWeb /\ [][Next]_vars

(***************************************************************************)
(* The complexity functions called on their own: analyze_code_complexity   *)
(* on a text, and the score of two tuples of counts of which the second    *)
(* has one count larger.                                                   *)
(***************************************************************************)
\* the lines a probed text is made of: "x = 1", the same with blanks around
\* it, an empty line, a line of one blank, "for x in y:" and "fortune"
ProbeLines ==
  { t_assign,
    <<" "," ">> \o t_assign \o <<" ">>,
    <<>>,
    <<" ">>,
    <<"f","o","r"," ","x"," ","i","n"," ","y",":">>,
    <<"f","o","r","t","u","n","e">> }

\* the most lines a probed text holds
MaxLines == 4

\* "\n".join(lines)
RECURSIVE JoinLines(_)
JoinLines(lines) ==
  IF lines = <<>> THEN <<>>
  ELSE IF Len(lines) = 1 THEN lines[1]
  ELSE lines[1] \o <<NL>> \o JoinLines(Tail(lines))

ProbeTexts ==
  {JoinLines(q) : q \in UNION {[1..n -> ProbeLines] : n \in 1..MaxLines}}

\* the largest count of the first tuple
MaxCount == 2

\* (loops, conditionals, functions, duplication)
CountTuples == [1..4 -> 0..MaxCount]

\* the pairs of tuples that differ in one count, larger in the second
CountPairs ==
  {[kind |-> "counts", first |-> c, second |-> [c EXCEPT ![k] = v]] :
     <<c, k, v>> \in {t \in CountTuples \X (1..4) \X (1..(MaxCount + 1)) :
                        t[3] > t[1][t[2]]}}

\* the score a report carries for a tuple of counts
EstimatedComplexity(c) == Round2(_estimate_complexity(c[1], c[2], c[3], c[4]))

CallAnalyze ==
  /\ cx_in.kind = "text"
  /\ cx_out = NoCall
  /\ cx_out' = [kind |-> "report",
                r |-> analyze_code_complexity(StrContent(cx_in.code), cx_in.language)]
  /\ UNCHANGED <<cx_in, ex_in, ex_out, rs_dep, rs_file, rs_out, rs_local>>
  /\ UNCHANGED <<inputVars, runVars, hash_seed, prev_result, prev_seed>>

CallEstimate ==
  /\ cx_in.kind = "counts"
  /\ cx_out = NoCall
  /\ cx_out' = [kind |-> "scores",
                first |-> EstimatedComplexity(cx_in.first),
                second |-> EstimatedComplexity(cx_in.second)]
  /\ UNCHANGED <<cx_in, ex_in, ex_out, rs_dep, rs_file, rs_out, rs_local>>
  /\ UNCHANGED <<inputVars, runVars, hash_seed, prev_result, prev_seed>>

InitComplexity ==
  /\ \/ \E t \in ProbeTexts, l \in SUPPORTED_LANGUAGES :
          cx_in = [kind |-> "text", code |-> t, language |-> l]
     \/ cx_in \in CountPairs
  /\ cx_out = NoCall
  /\ ex_in = NoCall
  /\ ex_out = NoCall
  /\ rs_dep = <<>>
  /\ rs_file = <<>>
  /\ rs_out = <<>>
  /\ rs_local = <<>>
  /\ fs_files = DiskEmpty.files
  /\ fs_dirs = DiskEmpty.dirs
  /\ project_files = <<>>
  /\ hash_seed = 0
  /\ pc = "idle"
  /\ idx = 0
  /\ file_analyses = <<>>
  /\ dependency_graph = <<>>
  /\ interconnections = <<>>
  /\ gi = 0
  /\ di = 0
  /\ result = NoResult
  /\ prev_result = NoResult
  /\ prev_seed = 0

NextComplexity ==
  \/ CallAnalyze
  \/ CallEstimate

SpecComplexity == InitComplexity /\ [][NextComplexity]_vars

(***************************************************************************)
(* The token extractor called on its own, on texts of statements written   *)
(* in lower and in upper case, for each of the five languages.             *)
(***************************************************************************)
ExtractLines ==
  { w_import \o <<" ","x">>,
    <<"I","M","P","O","R","T"," ","x">>,
    w_from \o <<" ","x"," ">> \o w_import \o <<" ","y">>,
    <<"F","r","o","m"," ","x"," ","I","m","p","o","r","t"," ","y">>,
    w_require \o <<"(","'","x","'",")">>,
    <<"R","E","Q","U","I","R","E","(","'","x","'",")">>,
    w_script \o <<" ">> \o w_src \o <<"\"","x","\"",">">>,
    <<"<","S","C","R","I","P","T"," ","S","R","C","=","\"","x","\"",">">>,
    w_atimport \o <<" ","\"","x","\"">>,
    <<"@","I","M","P","O","R","T"," ","\"","x","\"">> }

\* the most statements a probed text holds
MaxStatements == 2

ExtractTexts ==
  {JoinLines(q) : q \in UNION {[1..n -> ExtractLines] : n \in 1..MaxStatements}}

CallExtract ==
  /\ ex_in # NoCall
  /\ ex_out = NoCall
  /\ ex_out' = [kind |-> "tokens",
                tokens |-> find_imports_and_dependencies(ex_in.code, ex_in.language)]
  /\ UNCHANGED <<ex_in, cx_in, cx_out, rs_dep, rs_file, rs_out, rs_local>>
  /\ UNCHANGED <<inputVars, runVars, hash_seed, prev_result, prev_seed>>

InitExtract ==
  /\ \E t \in ExtractTexts, l \in {"python", "java", "javascript", "html", "css"} :
       ex_in = [kind |-> "text", code |-> t, language |-> l]
  /\ ex_out = NoCall
  /\ cx_in = NoCall
  /\ cx_out = NoCall
  /\ rs_dep = <<>>
  /\ rs_file = <<>>
  /\ rs_out = <<>>
  /\ rs_local = <<>>
  /\ fs_files = DiskEmpty.files
  /\ fs_dirs = DiskEmpty.dirs
  /\ project_files = <<>>
  /\ hash_seed = 0
  /\ pc = "idle"
  /\ idx = 0
  /\ file_analyses = <<>>
  /\ dependency_graph = <<>>
  /\ interconnections = <<>>
  /\ gi = 0
  /\ di = 0
  /\ result = NoResult
  /\ prev_result = NoResult
  /\ prev_seed = 0

NextExtract == CallExtract

SpecExtract == InitExtract /\ [][NextExtract]_vars

(***************************************************************************)
(* Properties                                                              *)
(***************************************************************************)
InputIndexes == 1..Len(project_files)
InputPath(k) == project_files[k].path
InputLanguage(k) == detect_language_from_filename(project_files[k].path)

\* the file map without its k-th item
WithoutItem(files, k) == SubSeq(files, 1, k - 1) \o SubSeq(files, k + 1, Len(files))

\* the input file k is one whose analysis raises
AnalysisFails(k) ==
  /\ InputLanguage(k) \in SUPPORTED_LANGUAGES
  /\ TryAnalyzeFile(project_files[k]).raised

\* the node of path p in a dict of nodes, and whether the two dicts agree on p
SameNodeIn(d1, d2, p) ==
  /\ DictHas(d1, p) <=> DictHas(d2, p)
  /\ DictHas(d1, p) => DictLookup(d1, p) = DictLookup(d2, p)

\* C1: a file of a supported language whose analysis raises does not stop the
\* run: the call stays in its two loops until it returns; as soon as the first
\* pass is over the file, its node holds an error message, the metrics {} and
\* the dependencies []; and in the result every other input file has exactly
\* the node that the run on the input without the failing file gives it.
C1_FailureIsolated ==
  /\ pc \in {"first_pass", "second_pass", "done"}
  /\ \A k \in InputIndexes :
       (AnalysisFails(k) /\ (pc # "first_pass" \/ idx > k)) =>
         /\ DictHas(file_analyses, InputPath(k))
         /\ LET node == DictLookup(file_analyses, InputPath(k))
            IN  /\ DictGet(node, "error", None) \notin {None, ""}
                /\ DictGet(node, "metrics", None) = EmptyDict
                /\ DictGet(node, "dependencies", None) = <<>>
  /\ pc = "done" =>
       \A k \in InputIndexes :
         AnalysisFails(k) =>
           \A j \in InputIndexes \ {k} :
             SameNodeIn(result.files,
                        FirstPassNodes(WithoutItem(project_files, k), hash_seed),
                        InputPath(j))

\* C1 witness: a run has returned in which a file failed and a file after it
\* was analysed without error.
C1_Witness ==
  /\ pc = "done"
  /\ \E k, j \in InputIndexes :
       /\ k < j
       /\ AnalysisFails(k)
       /\ DictHas(result.files, InputPath(j))
       /\ "error" \notin DOMAIN DictLookup(result.files, InputPath(j))

\* C2: both ends of every edge are keys of the node map, while the edges are
\* built and in the result.
C2_EdgesJoinNodes ==
  /\ \A k \in 1..Len(interconnections) :
       /\ DictHas(file_analyses, interconnections[k].from)
       /\ DictHas(file_analyses, interconnections[k].to)
  /\ pc = "done" =>
       \A k \in 1..Len(result.interconnections) :
         /\ DictHas(result.files, result.interconnections[k].from)
         /\ DictHas(result.files, result.interconnections[k].to)

\* C2 witness: a run has returned in which a token resolved to a regular file
\* on disk under the project root that is no node, and no edge leads to it.
C2_Witness ==
  /\ pc = "done"
  /\ \E g \in 1..Len(dependency_graph) :
       \E dep \in dependency_graph[g].value :
         LET resolved == normalize_dependency_path(dep, dependency_graph[g].key, PROJECT_ROOT)
         IN  /\ resolved # None
             /\ isfile(UnderRoot(resolved))
             /\ ~DictHas(result.files, resolved)
             /\ \A k \in 1..Len(result.interconnections) :
                  result.interconnections[k].to # resolved

\* the tags the language classifier gives
CLASSIFIED_LANGUAGES == {"python", "java", "javascript", "html", "css"}

\* the nodes of a result that carry no error
ErrorFreeNodes(res) ==
  SelectSeq([k \in 1..Len(res.files) |-> res.files[k].value],
            LAMBDA node : "error" \notin DOMAIN node)

\* C3: total_files is the number of input files the classifier gives a tag,
\* and the two totals are the sums over the nodes without error.
C3_TotalsCountClassifiable ==
  pc = "done" =>
    /\ result.summary.total_files =
         Cardinality({k \in InputIndexes : InputLanguage(k) \in CLASSIFIED_LANGUAGES})
    /\ LET good == ErrorFreeNodes(result)
       IN  /\ result.summary.total_lines_of_code =
                SumSeq([k \in 1..Len(good) |-> good[k].metrics.lines_of_code])
           /\ result.summary.total_complexity =
                SumSeq([k \in 1..Len(good) |-> good[k].metrics.estimated_complexity])

\* C4: an input file of a language that is classified but has no keyword
\* table is a node of the result, and its error is a message.
C4_UnavailableIsErrorNode ==
  pc = "done" =>
    \A k \in InputIndexes :
      InputLanguage(k) \in CLASSIFIED_LANGUAGES \ SUPPORTED_LANGUAGES =>
        /\ DictHas(result.files, InputPath(k))
        /\ DictGet(DictLookup(result.files, InputPath(k)), "error", "") # ""

\* a module name: [a-zA-Z_][a-zA-Z0-9_]*
IsIdentifier(m) ==
  /\ m # <<>>
  /\ IsIdentStart(m[1])
  /\ \A k \in 1..Len(m) : IsIdentChar(m[k])

\* the path lies directly under the project root
AtRoot(path) == \A k \in 1..Len(path) : path[k] # SLASH

\* the text has the line "import m"
HasImportLine(content, m) ==
  /\ content.kind = "str"
  /\ \E k \in 1..Len(SplitLines(content.text)) :
       SplitLines(content.text)[k] = w_import \o <<" ">> \o m

\* the module names m for which m.py is a key of the file map
ModulesOfInput ==
  {SubSeq(InputPath(k), 1, Len(InputPath(k)) - 3) :
     k \in {j \in InputIndexes : Len(InputPath(j)) > 3
                                   /\ SubSeq(InputPath(j), Len(InputPath(j)) - 2, Len(InputPath(j))) = ext_py}}

\* the edges of a result that lead from one path to another
EdgesBetween(res, from, to) ==
  SelectSeq(res.interconnections, LAMBDA e : e.from = from /\ e.to = to)

\* C5 as stated: a python file P at the root with the line "import m", m.py
\* being a key of the file map and a regular file directly under the root,
\* has exactly one edge to m.py, of kind import.
C5_ImportGivesOneEdge ==
  pc = "done" =>
    \A k \in InputIndexes : \A m \in ModulesOfInput :
      ( /\ InputLanguage(k) = "python"
        /\ AtRoot(InputPath(k))
        /\ IsIdentifier(m)
        /\ HasImportLine(project_files[k].content, m)
        /\ isfile(UnderRoot(m \o ext_py)) )
      => EdgesBetween(result, InputPath(k), m \o ext_py)
           = << [from |-> InputPath(k), to |-> m \o ext_py, type |-> "import"] >>

\* C5 amended: when m is a dependency token of a python file P at the root,
\* m.py is a key of the file map and a regular file directly under the root,
\* no regular file named m lies directly under the root, and no other token of
\* P resolves to m.py, the result has exactly one edge from P to m.py, of kind
\* import.
C5_ImportGivesOneEdgeUnshadowed ==
  pc = "done" =>
    \A g \in 1..Len(dependency_graph) : \A m \in ModulesOfInput :
      LET P == dependency_graph[g].key
          target == m \o ext_py
      IN  ( /\ detect_language_from_filename(P) = "python"
            /\ AtRoot(P)
            /\ IsIdentifier(m)
            /\ m \in dependency_graph[g].value
            /\ isfile(UnderRoot(target))
            /\ ~isfile(UnderRoot(m))
            /\ \A t \in dependency_graph[g].value \ {m} :
                 normalize_dependency_path(t, P, PROJECT_ROOT) # target )
          => EdgesBetween(result, P, target)
               = << [from |-> P, to |-> target, type |-> "import"] >>

\* C5 witness: the instance of the claim, a.py importing b with b.py submitted
\* and on disk and no file b, has returned its single edge.
C5_Witness ==
  /\ pc = "done"
  /\ project_files = <<File(p_a_py, StrContent(t_import_b)), File(p_b_py, StrContent(t_assign))>>
  /\ isfile(UnderRoot(p_b_py))
  /\ ~isfile(UnderRoot(<<"b">>))
  /\ result.interconnections = << [from |-> p_a_py, to |-> p_b_py, type |-> "import"] >>

\* C6: the project of the single file index.html, whose script tag names an
\* app.js that is neither submitted nor on disk, has index.html as a node and
\* no edge.
C6_HtmlAloneIsNode ==
  ( /\ pc = "done"
    /\ project_files = <<File(p_index_html, StrContent(t_html))>>
    /\ ~exists(UnderRoot(p_app_js)) )
  => /\ DictHas(result.files, p_index_html)
     /\ result.interconnections = <<>>

\* the characters of a URL scheme after its first letter
IsSchemeChar(c) == c \in LowerSet \cup UpperSet \cup Digits \cup {"+", "-", "."}

\* the token opens with a URL scheme and "://", or with "//"
IsAbsoluteExternal(token) ==
  \/ StartsWith(token, <<SLASH, SLASH>>)
  \/ \E k \in 1..Len(token) :
       /\ token[1] \in LowerSet \cup UpperSet
       /\ \A j \in 1..k : IsSchemeChar(token[j])
       /\ MatchAt(token, k + 1, <<":", SLASH, SLASH>>)

\* C7: the resolver answers None for every token that opens with a URL
\* scheme or with "//", whatever the disk holds and whichever file refers.
C7_ExternalIsUnresolved ==
  (rs_out # Pending /\ IsAbsoluteExternal(rs_dep)) => rs_out = None

\* a sequence as a bag
CountIn(q, x) == Cardinality({k \in 1..Len(q) : q[k] = x})
SameBag(q1, q2) ==
  /\ Len(q1) = Len(q2)
  /\ \A k \in 1..Len(q1) : CountIn(q1, q1[k]) = CountIn(q2, q1[k])

\* two results that differ at most in the order of the dependencies of a
\* node, of the edges, and of the languages
SameUpToSetOrder(r1, r2) ==
  /\ Len(r1.files) = Len(r2.files)
  /\ \A k \in 1..Len(r1.files) :
       /\ r1.files[k].key = r2.files[k].key
       /\ DOMAIN r1.files[k].value = DOMAIN r2.files[k].value
       /\ \A f \in DOMAIN r1.files[k].value \ {"dependencies"} :
            r1.files[k].value[f] = r2.files[k].value[f]
       /\ SameBag(r1.files[k].value.dependencies, r2.files[k].value.dependencies)
  /\ SameBag(r1.interconnections, r2.interconnections)
  /\ SameBag(r1.summary.languages, r2.summary.languages)
  /\ \A f \in (DOMAIN r1.summary) \ {"languages"} : r1.summary[f] = r2.summary[f]

ContentOf(path) ==
  project_files[CHOOSE k \in InputIndexes : InputPath(k) = path].content

C10_ScoreFormula ==
  \A k \in 1..Len(file_analyses) :
    LET m == file_analyses[k].value.metrics
    IN  m # EmptyDict =>
          m.estimated_complexity =
            100 + 180 * m.loops + 120 * m.conditionals + 50 * m.functions
              + 70 * (m.duplicate_lines + m.repeated_sequences)

\* C10 witness: a report in which every count is positive.
C10_Witness ==
  \E k \in 1..Len(file_analyses) :
    LET m == file_analyses[k].value.metrics
    IN  /\ m # EmptyDict
        /\ m.loops > 0 /\ m.conditionals > 0 /\ m.functions > 0
        /\ m.duplicate_lines > 0 /\ m.repeated_sequences > 0


\* C11: the score does not go down when one of loops, conditionals, functions
\* or duplication grows and the other three stay; and every count a report
\* carries is at least 0.
C11_ScoreMonotone ==
  /\ cx_out.kind = "scores" => cx_out.second >= cx_out.first
  /\ (cx_out.kind = "report" /\ ~cx_out.r.raised) =>
       LET m == cx_out.r.value
       IN  /\ m.lines_of_code >= 0 /\ m.loops >= 0 /\ m.conditionals >= 0
           /\ m.functions >= 0 /\ m.duplicate_lines >= 0
           /\ m.repeated_sequences >= 0

\* duplication grew, with positive counts elsewhere, and the score went up
C11_Witness ==
  /\ cx_out.kind = "scores"
  /\ cx_in.second[4] > cx_in.first[4]
  /\ cx_in.first[1] > 0 /\ cx_in.first[2] > 0 /\ cx_in.first[3] > 0
  /\ cx_out.second > cx_out.first


\* the lines of the probed text after trimming, and those that are not empty
TrimmedLines == LET l == SplitLines(cx_in.code) IN [k \in 1..Len(l) |-> Strip(l[k])]
NonEmptyLines == {k \in 1..Len(TrimmedLines) : TrimmedLines[k] # <<>>}

\* C12: lines_of_code is the number of lines that are not empty after
\* trimming, and duplicate_lines is lines_of_code less the number of distinct
\* such lines; so no two equal lines give duplicate_lines = 0.
C12_LinesAndDuplicates ==
  (cx_out.kind = "report" /\ ~cx_out.r.raised) =>
    LET m == cx_out.r.value
        distinct == {TrimmedLines[k] : k \in NonEmptyLines}
    IN  /\ m.lines_of_code = Cardinality(NonEmptyLines)
        /\ m.duplicate_lines = m.lines_of_code - Cardinality(distinct)
        /\ (\A j, k \in NonEmptyLines : j # k => TrimmedLines[j] # TrimmedLines[k])
             => m.duplicate_lines = 0

\* three lines x = 1 and nothing else: lines_of_code = 3, duplicate_lines = 2
C12_Witness ==
  /\ cx_out.kind = "report"
  /\ cx_in.code = JoinLines(<<t_assign, t_assign, t_assign>>)
  /\ ~cx_out.r.raised
  /\ cx_out.r.value.lines_of_code = 3
  /\ cx_out.r.value.duplicate_lines = 2


\* the tokens of a node's dependency list that resolve to the path target
TokensResolvingTo(from, node, target) ==
  {k \in 1..Len(node.dependencies) :
     normalize_dependency_path(node.dependencies[k], from, PROJECT_ROOT) = target}

\* C13: a file has as many edges to a node T as it has distinct tokens that
\* resolve to T, and a token written several times in the file is one token
\* of its dependency list.
C13_OneEdgePerToken ==
  pc = "done" =>
    \A f \in 1..Len(result.files) :
      LET from == result.files[f].key
          node == result.files[f].value
      IN  /\ \A j, k \in 1..Len(node.dependencies) :
                j # k => node.dependencies[j] # node.dependencies[k]
          /\ \A t \in 1..Len(result.files) :
                Len(EdgesBetween(result, from, result.files[t].key))
                  = Cardinality(TokensResolvingTo(from, node, result.files[t].key))

\* sub/m.py names b on two lines and b.py on a third; its list holds the two
\* tokens b and b.py, both resolve to the node b.py, and two edges lead there
C13_Witness ==
  /\ pc = "done"
  /\ DictHas(result.files, p_sub_m_py)
  /\ DictHas(result.files, p_b_py)
  /\ Len(DictLookup(result.files, p_sub_m_py).dependencies) = 2
  /\ Len(EdgesBetween(result, p_sub_m_py, p_b_py)) = 2


\* C14: an edge leaving a python, java or javascript node has the kind import
\* and an edge leaving any other node the kind reference; and both kinds are
\* produced: an html or css file of the input with a token that resolves to a
\* node has a reference edge to that node.
C14_EdgeKinds ==
  pc = "done" =>
    /\ \A k \in 1..Len(result.interconnections) :
         LET e == result.interconnections[k]
         IN  e.type = IF DictLookup(result.files, e.from).language
                           \in {"python", "java", "javascript"}
                        THEN "import" ELSE "reference"
    /\ \A k \in InputIndexes :
         (InputLanguage(k) \in {"html", "css"} /\ project_files[k].content.kind = "str") =>
           \A d \in find_imports_and_dependencies(project_files[k].content.text, InputLanguage(k)) :
             LET r == normalize_dependency_path(d, InputPath(k), PROJECT_ROOT)
             IN  (r # None /\ DictHas(result.files, r)) =>
                   \E j \in 1..Len(result.interconnections) :
                     result.interconnections[j]
                       = [from |-> InputPath(k), to |-> r, type |-> "reference"]


\* the file maps with the items of files in another order
Reorderings(files) ==
  {[k \in 1..Len(files) |-> files[p[k]]] :
     p \in {f \in [1..Len(files) -> 1..Len(files)] :
              \A i, j \in 1..Len(files) : i # j => f[i] # f[j]}}

\* the edges of the run on a file map, as a set: every token of every node,
\* resolved against the nodes of the whole first pass
EdgeSetOf(files, seed) ==
  LET nodes == FirstPassNodes(files, seed)
  IN  UNION { UNION { Range(EdgesOfToken(nodes, nodes[f].key, nodes[f].value.dependencies[d])) :
                        d \in 1..Len(nodes[f].value.dependencies) } :
                f \in 1..Len(nodes) }

\* C15: while the first pass runs no token has been resolved and no edge
\* exists; once the second pass has begun every input file has been through
\* the first, every file that is not skipped has its node, and the nodes are
\* those of the whole first pass from then on; and the edges returned are, as
\* a set, those of the run on the same files in any order.
C15_PhasesInOrder ==
  /\ pc = "first_pass" => (interconnections = <<>> /\ gi = 0 /\ di = 0)
  /\ pc \in {"second_pass", "done"} =>
       /\ idx > Len(project_files)
       /\ DictKeys(file_analyses)
            = {InputPath(k) : k \in {j \in InputIndexes : ~Skipped(InputLanguage(j))}}
       /\ file_analyses = FirstPassNodes(project_files, hash_seed)
  /\ pc = "done" =>
       /\ result.files = file_analyses
       /\ \A q \in Reorderings(project_files) :
            Range(result.interconnections) = EdgeSetOf(q, hash_seed)

\* a.py comes before b.py in the map, and the edge a.py -> b.py is returned
C15_Witness ==
  /\ pc = "done"
  /\ Len(project_files) = 2
  /\ project_files[1].path = p_a_py
  /\ project_files[2].path = p_b_py
  /\ [from |-> p_a_py, to |-> p_b_py, type |-> "import"] \in Range(result.interconnections)


\* the candidates of a call: the stripped token under the directory of the
\* referencing file, and under the project root
CandidateBesideFile ==
  IF dirname(rs_file) = <<>>
    THEN normpath(PathJoin2(PROJECT_ROOT, rs_local))
    ELSE normpath(PathJoin2(PathJoin2(PROJECT_ROOT, dirname(rs_file)), rs_local))
CandidateUnderRoot == normpath(PathJoin2(PROJECT_ROOT, rs_local))

\* C16: the first strategy that succeeds gives the result: the candidate
\* beside the referencing file if it is a regular file; else the candidate
\* under the root if it is a regular file; else the first existing candidate
\* under the root with .py, .java, .js, .jsx, .html, .css appended, in that
\* order; else unresolved.
C16_StrategiesInOrder ==
  (rs_out # Pending /\ ~IsExternal(StripQueryFragment(rs_dep))) =>
    LET order == << <<".","p","y">>, <<".","j","a","v","a">>, <<".","j","s">>,
                    <<".","j","s","x">>, <<".","h","t","m","l">>, <<".","c","s","s">> >>
        found == {k \in 1..Len(order) : exists(CandidateUnderRoot \o order[k])}
    IN  IF isfile(CandidateBesideFile)
          THEN rs_out = relpath(CandidateBesideFile, PROJECT_ROOT)
        ELSE IF isfile(CandidateUnderRoot)
          THEN rs_out = relpath(CandidateUnderRoot, PROJECT_ROOT)
        ELSE IF found # {}
          THEN rs_out = relpath(CandidateUnderRoot
                                  \o order[CHOOSE k \in found : \A m \in found : k <= m],
                                PROJECT_ROOT)
        ELSE rs_out = None

\* sub/m.py names b.py; sub/b.py and b.py are both regular files, and the one
\* beside the referencing file is returned
C16_Witness ==
  /\ rs_out = p_sub_b_py
  /\ rs_file = p_sub_m_py
  /\ rs_local = p_b_py
  /\ isfile(UnderRoot(p_b_py))
  /\ isfile(UnderRoot(p_sub_b_py))


\* the keyword stands at position i of the text as a whole word
WholeWordAt(text, i, keyword) ==
  /\ MatchAt(text, i, keyword)
  /\ i = 1 \/ ~IsIdentChar(text[i - 1])
  /\ i + Len(keyword) > Len(text) \/ ~IsIdentChar(text[i + Len(keyword)])

\* the number of whole-word occurrences of the keywords in the text
WholeWordCount(text, keywords) ==
  Cardinality({i \in 1..Len(text) :
                 \E k \in 1..Len(keywords) : WholeWordAt(text, i, keywords[k])})

\* C17: loops, conditionals and functions are the numbers of whole-word,
\* case-sensitive occurrences in the raw text of the keywords of the language
\* for the category: "for x in y:" has one loop, "fortune" has none.
C17_KeywordsAreWholeWords ==
  (cx_out.kind = "report" /\ ~cx_out.r.raised) =>
    LET m == cx_out.r.value
    IN  /\ m.loops = WholeWordCount(cx_in.code, LOOP_KEYWORDS[cx_in.language])
        /\ m.conditionals = WholeWordCount(cx_in.code, CONDITIONAL_KEYWORDS[cx_in.language])
        /\ m.functions = WholeWordCount(cx_in.code, FUNCTION_KEYWORDS[cx_in.language])


\* the word occurs somewhere in the text, in the case it is written in
ContainsWord(text, word) == \E i \in 1..Len(text) : MatchAt(text, i, word)

\* C18: the extraction heeds case for python, java and javascript, so a text
\* of these languages without a lower-case import, from or require yields no
\* token; for html and css it does not, so a text yields the tokens of the
\* same text in lower case.
C18_CaseSensitiveExceptWeb ==
  ex_out # NoCall =>
    /\ ( /\ ex_in.language \in {"python", "java", "javascript"}
         /\ ~ContainsWord(ex_in.code, w_import)
         /\ ~ContainsWord(ex_in.code, w_from)
         /\ ~ContainsWord(ex_in.code, w_require) )
       => ex_out.tokens = {}
    /\ ex_in.language \in {"html", "css"} =>
         ex_out.tokens = find_imports_and_dependencies(LowerStr(ex_in.code), ex_in.language)


\* the windows of three consecutive trimmed lines none of which is empty, by
\* the position of their first line
QualifyingWindows ==
  {i \in 1..(Len(TrimmedLines) - 2) : \A k \in i..(i + 2) : TrimmedLines[k] # <<>>}

\* C19: repeated_sequences is the number of qualifying windows less the number
\* of distinct ones (occurrences - 1 summed over the groups of equal windows);
\* it is 0 with fewer than three non-empty lines and 0 when no two non-empty
\* lines are equal.
C19_RepeatedWindows ==
  (cx_out.kind = "report" /\ ~cx_out.r.raised) =>
    LET m == cx_out.r.value
        distinct == {SubSeq(TrimmedLines, i, i + 2) : i \in QualifyingWindows}
    IN  /\ m.repeated_sequences = Cardinality(QualifyingWindows) - Cardinality(distinct)
        /\ Cardinality(NonEmptyLines) < 3 => m.repeated_sequences = 0
        /\ (\A j, k \in NonEmptyLines : j # k => TrimmedLines[j] # TrimmedLines[k])
             => m.repeated_sequences = 0

\* four lines x = 1: two equal windows, one repeated sequence
C19_Witness ==
  /\ cx_out.kind = "report"
  /\ cx_in.code = JoinLines(<<t_assign, t_assign, t_assign, t_assign>>)
  /\ ~cx_out.r.raised
  /\ cx_out.r.value.repeated_sequences = 1


\* the token without its leading relative-path prefixes ./ and ../
RECURSIVE WithoutRelativePrefix(_)
WithoutRelativePrefix(dep) ==
  IF StartsWith(dep, <<DOT, SLASH>>)
    THEN WithoutRelativePrefix(Slice(dep, 3, Len(dep)))
  ELSE IF StartsWith(dep, <<DOT, DOT, SLASH>>)
    THEN WithoutRelativePrefix(Slice(dep, 4, Len(dep)))
  ELSE dep

\* C20: the third step takes only a leading ./ or ../ off the token: a dot
\* that begins a name and the / of an absolute path stay, and a token without
\* such a prefix is unchanged.
C20_OnlyRelativePrefixStripped ==
  (rs_out # Pending /\ ~IsExternal(StripQueryFragment(rs_dep))) =>
    rs_local = WithoutRelativePrefix(StripQueryFragment(rs_dep))


\* the place on the disk that a returned project-relative path denotes
ReturnedPlace == normpath(PathJoin2(PROJECT_ROOT, rs_out))

\* C21: every result of the resolver other than unresolved is a regular file
\* inside the project root: the returned path does not begin with .., is not
\* a directory, and lies below the root.
C21_ResultIsFileInsideRoot ==
  (rs_out # Pending /\ rs_out # None) =>
    /\ isfile(ReturnedPlace)
    /\ ReturnedPlace \notin fs_dirs
    /\ ~StartsWith(rs_out, <<DOT, DOT>>)
    /\ StartsWith(ReturnedPlace, PROJECT_ROOT \o <<SLASH>>)

=============================================================================
